---------------------------- MODULE Spec2Model ----------------------------
(* django-formset, formset/views.py: the view mixins that answer option      *)
(* searches, receive file uploads and validate forms submitted as JSON, and  *)
(* the metaclass that collects the forms declared on a collection view.      *)
(*                                                                           *)
(* Each handler is modelled from its code.  The four groups of handlers      *)
(* share no state, so each has its own next-state relation and its own       *)
(* specification (SpecForm, SpecMeta, SpecSearch, SpecUpload and, for        *)
(* interleaved uploads, SpecConcurrent); Spec is their union.  A request is  *)
(* answered once.  An exception that leaves a handler is the framework's     *)
(* 500 response, recorded with the exception's name.                         *)
EXTENDS Integers, Sequences, FiniteSets, TLC

VARIABLES
    \* ---- form validation (FormViewMixin, FormCollectionViewMixin)
    form_class_name,   \* the name attribute of FormView.form_class, or NoName
    declared_forms,    \* the collection view's declared_forms, in dict order
    form_data,         \* the parsed JSON body of the last POST
    form_handler,      \* which _handle_form_data answered: "none", "form", "collection"
    form_response,     \* its response
    \* ---- class creation (FormsetViewMeta)
    classes,           \* the classes created so far, in creation order
    \* ---- option search (SelectizeResponseMixin)
    search_view,       \* the view searched: "form" (FormView) or "collection"
    queryset,          \* the ids of the records of field.widget.choices.queryset
    max_prefetch_choices, \* field.widget.max_prefetch_choices
    to_field_name,     \* field.to_field_name ("" when unset)
    search_request,    \* the GET parameters of the search
    search_response,   \* its response
    \* ---- file upload (FileUploadMixin)
    upload_dir_exists, \* os.path.exists(upload_temp_dir)
    files,             \* the files of upload_temp_dir: name -> [size, creator, writers]
    upload,            \* per request: the uploaded file and image_height
    pc,                \* per request: its position in _receive_uploaded_file
    local,             \* per request: its local variables
    upload_response    \* per request: its response

form_vars == <<form_class_name, declared_forms, form_data, form_handler, form_response>>
meta_vars == <<classes>>
search_vars == <<search_view, queryset, max_prefetch_choices, to_field_name,
                 search_request, search_response>>
upload_vars == <<upload_dir_exists, files, upload, pc, local, upload_response>>
vars == <<form_vars, meta_vars, search_vars, upload_vars>>
not_form_vars == <<meta_vars, search_vars, upload_vars>>
not_meta_vars == <<form_vars, search_vars, upload_vars>>
not_search_vars == <<form_vars, meta_vars, upload_vars>>
not_upload_vars == <<form_vars, meta_vars, search_vars>>

Min(a, b) == IF a <= b THEN a ELSE b
Max(a, b) == IF a >= b THEN a ELSE b
Range(s) == {s[i] : i \in DOMAIN s}

\* A response: status, the JSON body (as much of it as its status has) and,
\* for a 500, the exception that left the handler.
NoResponse == [status |-> 0, exc |-> "", body |-> <<>>]
Raised(e) == [status |-> 500, exc |-> e, body |-> <<>>]
JsonResponse(data, st) == [status |-> st, exc |-> "", body |-> data]
HttpResponseBadRequest(msg) == [status |-> 400, exc |-> "", body |-> msg]

(***************************************************************************)
(* Form validation                                                         *)
(***************************************************************************)

\* testapp/forms/address.py: three required CharFields and their max_length.
AddressFields == <<"recipient", "postal_code", "city">>
RecipientMaxLength == 100
PostalCodeMaxLength == 8
CityMaxLength == 50
max_length(f) ==
    CASE f = "recipient" -> RecipientMaxLength
      [] f = "postal_code" -> PostalCodeMaxLength
      [] f = "city" -> CityMaxLength

\* A submitted string is modelled by its length.
ValueLens == {0, PostalCodeMaxLength, PostalCodeMaxLength + 1, RecipientMaxLength + 1}

\* JSON values a form's sub-object can be: an object of field values, null,
\* or anything else (a string, a number, a list).
ObjectData == UNION {[S -> ValueLens] : S \in SUBSET Range(AddressFields)}
SubValues == {[kind |-> "object", fields |-> d] : d \in ObjectData}
               \cup {[kind |-> "null", fields |-> <<>>], [kind |-> "other", fields |-> <<>>]}
EmptyDict == [kind |-> "object", fields |-> <<>>]

NoName == "<no name attribute>"
DefaultName == "__default__"
SuccessUrl == "/success"

\* form_data.get(name, {}) on a dict.
DictGet(d, name) == IF name \in DOMAIN d THEN d[name] ELSE EmptyDict

\* CharField.clean on data.get(field): required, then the max_length validator.
FieldErrors(data, f) ==
    LET len == IF f \in DOMAIN data.fields THEN data.fields[f] ELSE 0
    IN  IF len = 0 THEN <<"required">>
        ELSE IF len > max_length(f) THEN <<"max_length">>
        ELSE <<>>

\* form.errors of AddressForm(data=data): only the fields with errors. An
\* unbound form (data=None) has no errors and is not valid.
FormErrors(data) ==
    IF data.kind = "null" THEN <<>>
    ELSE LET bad == {f \in Range(AddressFields) : FieldErrors(data, f) # <<>>}
         IN  [f \in bad |-> FieldErrors(data, f)]

\* Binding to data that is no mapping fails in data.get when the fields are cleaned.
FormRaises(data) == data.kind = "other"

IsValid(data) == data.kind = "object" /\ FormErrors(data) = <<>>

\* The JSON bodies over a set of keys: an object of sub-values, or anything
\* that is no object (a list, a string, a number, null).
Bodies(keys) ==
    {[kind |-> "object", items |-> d] : d \in UNION {[S -> SubValues] : S \in SUBSET keys}}
      \cup {[kind |-> "other", items |-> <<>>]}

\* FormViewMixin._handle_form_data(form_data)
FormView_handle_form_data(class_name, body) ==
    LET form_name == IF class_name = NoName THEN DefaultName ELSE class_name
    IN  IF body.kind # "object" THEN Raised("AttributeError")
        ELSE LET data == DictGet(body.items, form_name)
             IN  IF FormRaises(data) THEN Raised("AttributeError")
                 ELSE IF IsValid(data)
                      THEN JsonResponse([success_url |-> SuccessUrl], 200)
                      ELSE JsonResponse([n \in {form_name} |-> FormErrors(data)], 422)

\* error_response.update({name: errors})
DictUpdate(d, name, value) ==
    [n \in DOMAIN d \cup {name} |-> IF n = name THEN value ELSE d[n]]

\* for name, form in self.declared_forms.items(): ... over the forms left,
\* acc holding is_valid and error_response; an exception ends the loop.
RECURSIVE ValidateForms(_, _, _)
ValidateForms(forms, body, acc) ==
    IF forms = <<>> THEN acc
    ELSE IF body.kind # "object" THEN [acc EXCEPT !.exc = "AttributeError"]
    ELSE LET name == Head(forms)
             data == DictGet(body.items, name)
         IN  IF FormRaises(data) THEN [acc EXCEPT !.exc = "AttributeError"]
             ELSE IF ~IsValid(data)
                  THEN ValidateForms(Tail(forms), body,
                         [is_valid |-> FALSE, exc |-> "",
                          error_response |-> DictUpdate(acc.error_response, name, FormErrors(data))])
                  ELSE ValidateForms(Tail(forms), body, acc)

\* FormCollectionViewMixin._handle_form_data(form_data)
FormCollectionView_handle_form_data(forms, body) ==
    LET r == ValidateForms(forms, body,
                           [is_valid |-> TRUE, exc |-> "", error_response |-> <<>>])
    IN  IF r.exc # "" THEN Raised(r.exc)
        ELSE IF r.is_valid THEN JsonResponse([success_url |-> SuccessUrl], 200)
        ELSE JsonResponse(r.error_response, 422)

FormNames == {"A", "B"}
FormClassNames == {NoName, "address"}
\* The orders a dict of declared forms can have.
DeclaredFormsChoices == {<<>>, <<"A">>, <<"B">>, <<"A", "B">>, <<"B", "A">>}

InitForm ==
    /\ form_class_name \in FormClassNames
    /\ declared_forms \in DeclaredFormsChoices
    /\ form_data = [kind |-> "other", items |-> <<>>]
    /\ form_handler = "none"
    /\ form_response = NoResponse

\* POST application/json to a FormView
PostFormView ==
    /\ form_handler = "none"
    /\ \E body \in Bodies({DefaultName, "address"}) :
          /\ form_data' = body
          /\ form_response' = FormView_handle_form_data(form_class_name, body)
    /\ form_handler' = "form"
    /\ UNCHANGED <<form_class_name, declared_forms, not_form_vars>>

\* POST application/json to a FormCollectionView
PostFormCollectionView ==
    /\ form_handler = "none"
    /\ \E body \in Bodies(FormNames) :
          /\ form_data' = body
          /\ form_response' = FormCollectionView_handle_form_data(declared_forms, body)
    /\ form_handler' = "collection"
    /\ UNCHANGED <<form_class_name, declared_forms, not_form_vars>>


(***************************************************************************)
(* FormsetViewMeta: the forms declared on a collection view class          *)
(***************************************************************************)

\* The attribute names a class body may set, and what it may set them to: a
\* BaseForm instance, None, or any other value ("absent": not set).
AttrNames == {"address"}
Forms == {"form1", "form2"}
AttrValues == {"absent", "None", "other"} \cup Forms
ClassBodies == [AttrNames -> AttrValues]

\* The body of a mixin, a class built by `type`: it declares no form.
MixinBodies == [AttrNames -> AttrValues \ Forms]

\* The number of classes created beside FormCollectionViewMixin, how many of
\* them may be mixins, and the number of bases a class may name.
MaxClasses == 4
MaxMixins == 1
MaxBases == 2

\* attrs['declared_forms']: the BaseForm instances of the class body.
OwnForms(attrs) ==
    LET names == {a \in AttrNames : attrs[a] \in Forms}
    IN  [a \in names |-> attrs[a]]

\* The __dict__ of the new class: the forms are popped from attrs.
ClassDict(attrs) == [a \in AttrNames |-> IF attrs[a] \in Forms THEN "absent" ELSE attrs[a]]

\* declared_forms.update(other)
DictMerge(d, other) ==
    [a \in DOMAIN d \cup DOMAIN other |-> IF a \in DOMAIN other THEN other[a] ELSE d[a]]

\* Form shadowing: pop the names a class's __dict__ sets to None.
Shadow(d, dict) ==
    LET kept == {a \in DOMAIN d : dict[a] # "None"}
    IN  [a \in kept |-> d[a]]

\* One base of the walk: update with its declared_forms if it has the
\* attribute (a class built by the metaclass has, a mixin has not), then shadow.
WalkStep(d, base) ==
    Shadow(IF base.has_declared_forms THEN DictMerge(d, base.declared_forms) ELSE d,
           base.dict)

\* reversed(seq)
Reverse(seq) == [i \in DOMAIN seq |-> seq[Len(seq) + 1 - i]]

\* for base in reversed(new_class.__mro__): the first i classes of the
\* reversed MRO `rmro`, given as positions in `cs`.  A base's declared_forms
\* is what its own creation left there: its merged mapping; the new class
\* still holds its own forms only.
RECURSIVE WalkMro(_, _, _)
WalkMro(cs, rmro, i) ==
    IF i = 0 THEN <<>>
    ELSE WalkStep(WalkMro(cs, rmro, i - 1), cs[rmro[i]])

\* new_class.__mro__ is the C3 linearisation that type.__new__ computes: the
\* class, then the merge of its bases' MROs and the list of bases, taking at
\* each step the first head that is in no list's tail.  NoMro: there is no
\* consistent order and type.__new__ raises TypeError.
NoMro == <<0>>
Remove(seq, x) == SelectSeq(seq, LAMBDA y : y # x)
InTail(x, seq) == \E i \in 2..Len(seq) : seq[i] = x

RECURSIVE C3Merge(_)
C3Merge(seqs) ==
    LET left == SelectSeq(seqs, LAMBDA q : q # <<>>)
        heads == {i \in DOMAIN left : \A j \in DOMAIN left : ~InTail(Head(left[i]), left[j])}
    IN  IF left = <<>> THEN <<>>
        ELSE IF heads = {} THEN NoMro
        ELSE LET first == CHOOSE i \in heads : \A j \in heads : i <= j
                 next == Head(left[first])
                 rest == C3Merge([k \in DOMAIN left |-> Remove(left[k], next)])
             IN  IF rest = NoMro THEN NoMro ELSE <<next>> \o rest

\* The MRO of a class created at position n of `cs` with the given bases
\* (positions in `cs`); `object` and ContextMixin, which end every MRO and
\* set no name of AttrNames, are left out.
Mro(cs, n, bases) ==
    LET merged == C3Merge(Append([i \in DOMAIN bases |-> cs[bases[i]].mro], bases))
    IN  IF merged = NoMro THEN NoMro ELSE <<n>> \o merged

\* The tuples of bases a new class may name: one to MaxBases different
\* classes (type.__new__ raises TypeError for a repeated base).
BaseLists(cs) ==
    {bases \in UNION {[1..n -> DOMAIN cs] : n \in 1..MaxBases} :
        \A i, j \in DOMAIN bases : i # j => bases[i] # bases[j]}

\* FormsetViewMeta.__new__(cls, name, bases, attrs): the class it returns.
FormsetViewMeta_new(cs, bases, attrs) ==
    LET n == Len(cs) + 1
        mro == Mro(cs, n, bases)
        new_class == [bases |-> bases, attrs |-> attrs, dict |-> ClassDict(attrs),
                      mro |-> mro, has_declared_forms |-> TRUE,
                      declared_forms |-> OwnForms(attrs)]
    IN  [new_class EXCEPT
            !.declared_forms = WalkMro(Append(cs, new_class), Reverse(mro), Len(mro))]

\* class FormCollectionViewMixin(ContextMixin, metaclass=FormsetViewMeta):
\* its body declares no form and sets no name of AttrNames (its
\* success_url = None shadows nothing: every class with declared_forms
\* comes after it in the walk).
FormCollectionViewMixin ==
    FormsetViewMeta_new(<<>>, <<>>, [a \in AttrNames |-> "absent"])

InitMeta == classes = <<FormCollectionViewMixin>>

\* class X(<bases>): <body>, at least one base being a class of the
\* metaclass, so that X is built by FormsetViewMeta.__new__.  Bases without
\* a consistent MRO raise TypeError in type.__new__ and create no class.
CreateClass ==
    /\ Len(classes) <= MaxClasses
    /\ \E bases \in BaseLists(classes), attrs \in ClassBodies :
          /\ \E i \in DOMAIN bases : classes[bases[i]].has_declared_forms
          /\ Mro(classes, Len(classes) + 1, bases) # NoMro
          /\ classes' = Append(classes, FormsetViewMeta_new(classes, bases, attrs))
    /\ UNCHANGED not_meta_vars

\* class M: <body>, a mixin built by `type`: no declared_forms attribute,
\* its __dict__ is its body.
CreateMixin ==
    /\ Len(classes) <= MaxClasses
    /\ Cardinality({i \in DOMAIN classes : ~classes[i].has_declared_forms}) < MaxMixins
    /\ \E attrs \in MixinBodies :
          classes' = Append(classes,
                            [bases |-> <<>>, attrs |-> attrs, dict |-> attrs,
                             mro |-> <<Len(classes) + 1>>, has_declared_forms |-> FALSE,
                             declared_forms |-> <<>>])
    /\ UNCHANGED not_meta_vars

(***************************************************************************)
(* SelectizeResponseMixin: the option search                               *)
(***************************************************************************)

\* Strings that the code takes apart are sequences of characters.
\* str.split(sep): the segments between the separators.
RECURSIVE SplitFrom(_, _, _, _)
SplitFrom(str, sep, cur, out) ==
    IF str = <<>> THEN Append(out, cur)
    ELSE IF Head(str) = sep THEN SplitFrom(Tail(str), sep, <<>>, Append(out, cur))
    ELSE SplitFrom(Tail(str), sep, Append(cur, Head(str)), out)

Split(str, sep) == SplitFrom(str, sep, <<>>, <<>>)

\* The records of the backing collection: ids 1..NumRecords, each with its
\* label (str(item)) and the value of the to_field 'code'.
NumRecords == 3
Label(id) ==
    CASE id % 3 = 1 -> <<"a">>
      [] id % 3 = 2 -> <<"a", "b">>
      [] id % 3 = 0 -> <<"b", "b">>
Code(id) == 100 - id

\* The searched form: field "c" has a Selectize widget, field "n" has not.
\* The collection view declares it under the name "f".
SearchFormName == <<"f">>
SelectizeFields == {<<"c">>}
DeclaredFields == SelectizeFields \cup {<<"n">>}

\* `needle in haystack` for strings.
Contains(haystack, needle) ==
    \E i \in 1..(Len(haystack) - Len(needle) + 1) :
        SubSeq(haystack, i, i + Len(needle) - 1) = needle

\* field.widget.search(query): the records whose label contains the query.
WidgetSearch(qs, query) == {id \in qs : Contains(Label(id), query)}

\* order_by('-id') of a set of records, as the sequence of their ids.
RECURSIVE OrderByIdDesc(_)
OrderByIdDesc(ids) ==
    IF ids = {} THEN <<>>
    ELSE LET top == CHOOSE id \in ids : \A other \in ids : other <= id
         IN  <<top>> \o OrderByIdDesc(ids \ {top})

\* seq[:n]
Slice(seq, n) == SubSeq(seq, 1, Min(n, Len(seq)))

\* getattr(item, to_field_name), to_field_name defaulting to 'pk'.
ItemId(id, to_field) == IF to_field = "" THEN id ELSE Code(id)

\* get_field(form_name, field_name): the name of the exception it raises, or "".
GetFieldRaises(view, form_name, field_name) ==
    IF view = "collection" /\ form_name # SearchFormName THEN "KeyError"
    ELSE IF field_name \notin DeclaredFields THEN "KeyError"
    ELSE ""

\* filtered_qs.count() counting all the matches (the mutant of FilteredCount).
FilteredCountUnsliced(matches, filtered_qs) == Cardinality(matches)

\* filtered_qs.count() on the sliced queryset, after it was iterated for items.
FilteredCount(matches, filtered_qs) == Len(filtered_qs)

\* SelectizeResponseMixin._fetch_options(request)
fetch_options(view, qs, max, to_field, request) ==
    LET parts == Split(request.field, ".")
    IN  IF Len(parts) # 2 THEN Raised("ValueError")
        ELSE IF GetFieldRaises(view, parts[1], parts[2]) # ""
             THEN Raised(GetFieldRaises(view, parts[1], parts[2]))
        ELSE IF parts[2] \notin SelectizeFields THEN Raised("AssertionError")
        ELSE LET matches == WidgetSearch(qs, request.query)
                 filtered_qs == Slice(OrderByIdDesc(matches), max)
                 items == [i \in DOMAIN filtered_qs |->
                             [id |-> ItemId(filtered_qs[i], to_field),
                              label |-> Label(filtered_qs[i])]]
             IN  JsonResponse([query |-> request.query,
                               count |-> FilteredCount(matches, filtered_qs),
                               total_count |-> Cardinality(qs),
                               items |-> items], 200)

\* The field references and queries a client sends.
FieldParams == {<<"f", ".", "c">>, <<"f", ".", "n">>, <<"f", ".", "z">>, <<"g", ".", "c">>,
                <<"f", "c">>, <<"f", ".", "c", ".", "x">>, <<>>, <<"f", ".">>}
Queries == {<<>>, <<"a">>, <<"b">>, <<"b", "b">>, <<"z">>}
MaxPrefetch == 2
NoRequest == [field |-> <<>>, query |-> <<>>, sent |-> FALSE]

InitSearch ==
    /\ search_view \in {"form", "collection"}
    /\ queryset \in SUBSET (1..NumRecords)
    /\ max_prefetch_choices \in 1..MaxPrefetch
    /\ to_field_name \in {"", "code"}
    /\ search_request = NoRequest
    /\ search_response = NoResponse

\* GET ?field=..&query=.. accepting application/json
GetSearch ==
    /\ ~search_request.sent
    /\ \E f \in FieldParams, q \in Queries :
          LET request == [field |-> f, query |-> q, sent |-> TRUE]
          IN  /\ search_request' = request
              /\ search_response' = fetch_options(search_view, queryset, max_prefetch_choices,
                                                  to_field_name, request)
    /\ UNCHANGED <<search_view, queryset, max_prefetch_choices, to_field_name, not_search_vars>>

(***************************************************************************)
(* FileUploadMixin: receiving an uploaded file                             *)
(***************************************************************************)

\* File names are sequences of characters; a content type is the sequence of
\* its parts with "/" between them; a URL is the storage and the path.
RECURSIVE Sum(_)
Sum(seq) == IF seq = <<>> THEN 0 ELSE Head(seq) + Sum(Tail(seq))

filename_max_length == 50
thumbnail_max_height == 200
thumbnail_max_width == 400

\* os.path.splitext(name): the extension starts at the last dot, unless
\* only dots precede it.
splitext(name) ==
    LET dots == {i \in DOMAIN name : name[i] = "." /\ \E j \in 1..(i - 1) : name[j] # "."}
    IN  IF dots = {} THEN <<name, <<>>>>
        ELSE LET last == CHOOSE i \in dots : \A k \in dots : k <= i
             IN  <<SubSeq(name, 1, last - 1), SubSeq(name, last, Len(name))>>

\* The random part of a temp name (one character stands for mkstemp's eight).
NumRandom == 2
RandomNames == {ToString(i) : i \in 1..NumRandom}

\* tempfile.mkstemp tries random names with O_CREAT | O_EXCL until one is
\* new; dropping O_EXCL (the mutant of TempNames) allows every name.
TempNamesNotExclusive(fs, prefix, suffix) == {prefix \o <<x>> \o suffix : x \in RandomNames}

\* The names mkstemp(suffix, prefix, dir) can return: prefix + random + suffix, not yet a file.
TempNames(fs, prefix, suffix) ==
    {prefix \o <<x>> \o suffix : x \in RandomNames} \ DOMAIN fs

\* A file opened for writing by request r with O_CREAT (and O_TRUNC when it exists).
Opened(fs, name, r) ==
    [n \in DOMAIN fs \cup {name} |->
        IF n # name THEN fs[n]
        ELSE IF name \in DOMAIN fs
             THEN [size |-> 0, creator |-> fs[n].creator, writers |-> fs[n].writers \cup {r}]
             ELSE [size |-> 0, creator |-> r, writers |-> {}]]

\* os.write of n bytes at the descriptor's offset.
Written(fs, name, offset, n, r) ==
    [fs EXCEPT ![name] = [size |-> Max(@.size, offset + n), creator |-> @.creator,
                          writers |-> @.writers \cup {r}]]

UploadTemp == <<"upload_temp", "/">>
\* default_storage.url(relative_path), staticfiles_storage.url(path)
MediaUrl(path) == [storage |-> "media", path |-> path]
StaticUrl(path) == [storage |-> "static", path |-> path]
\* signer.sign(relative_path) with salt 'formset'
Sign(path) == [value |-> path, salt |-> "formset"]

\* FileUploadMixin._file_icon_url with every type given the unknown icon (the
\* mutant of file_icon_url).
file_icon_url_AlwaysUnknown(content_type) ==
    StaticUrl(<<"formset/icons/file-", "unknown", ".svg">>)

\* FileUploadMixin._file_icon_url(content_type); its caller has split the
\* content type in two parts already.
file_icon_url(content_type) ==
    LET mime_type == Split(content_type, "/")[1]
        sub_type == Split(content_type, "/")[2]
    IN  IF mime_type \in {<<"audio">>, <<"font">>, <<"video">>}
        THEN StaticUrl(<<"formset/icons/file-">> \o mime_type \o <<".svg">>)
        ELSE IF mime_type = <<"application">> /\ sub_type \in {<<"zip">>, <<"pdf">>}
        THEN StaticUrl(<<"formset/icons/file-">> \o sub_type \o <<".svg">>)
        ELSE StaticUrl(<<"formset/icons/file-", "unknown", ".svg">>)

\* int(round(num / den)) for num >= 0, den > 0: Python rounds halves to even.
RoundDiv(num, den) ==
    LET q == num \div den
        twice == 2 * (num % den)
    IN  IF twice < den THEN q
        ELSE IF twice > den THEN q + 1
        ELSE IF q % 2 = 0 THEN q ELSE q + 1

\* The extensions PIL's Image.save knows among the names of the model.
ImageExtensions == {<<".", "p", "n", "g">>}

NoThumbnail(e) == [exc |-> e, url |-> <<>>, saved |-> <<>>]

\* FileUploadMixin._thumbnail_image(image_path, image_height): the URL it
\* returns and the thumbnail file it saved, or the exception that leaves it.
\* image is what the file's bytes are to PIL: "not_image" (Image.open
\* fails), or an image with its size, whose pixel data may be truncated
\* (Image.open reads the header only, ImageOps.fit the pixels).
thumbnail_image(image_path, image, image_height) ==
    IF image.kind = "not_image"
    THEN [exc |-> "", url |-> StaticUrl(<<"formset/icons/file-", "picture", ".svg">>),
          saved |-> <<>>]
    ELSE IF image_height.kind = "text" THEN NoThumbnail("ValueError")
    ELSE LET height0 == IF image_height.kind = "empty" THEN thumbnail_max_height
                        ELSE image_height.value
             width0 == RoundDiv(image.width * height0, image.height)
             width == Min(width0, thumbnail_max_width)
             height == Min(height0, thumbnail_max_height)
             parts == splitext(image_path)
             size == ToString(width) \o "x" \o ToString(height)
             thumb_path == parts[1] \o <<"_", size>> \o parts[2]
         IN  IF height = 0 THEN NoThumbnail("ZeroDivisionError")
             ELSE IF image.kind = "truncated" THEN NoThumbnail("OSError")
             ELSE IF width = 0 THEN NoThumbnail("ValueError")
             ELSE IF parts[2] \notin ImageExtensions THEN NoThumbnail("ValueError")
             ELSE [exc |-> "", url |-> MediaUrl(UploadTemp \o thumb_path), saved |-> thumb_path]

\* Lines 73-80: the thumbnail URL by content type, or the exception raised.
thumbnail_url(file_obj, temp_name, download_url, image_height) ==
    LET ct == Split(file_obj.content_type, "/")
    IN  IF Len(ct) # 2 THEN NoThumbnail("ValueError")
        ELSE IF ct[1] = <<"image">>
             THEN IF ct[2] = <<"svg+xml">>
                  THEN [exc |-> "", url |-> download_url, saved |-> <<>>]
                  ELSE thumbnail_image(temp_name, file_obj.image, image_height)
        ELSE [exc |-> "", url |-> file_icon_url(file_obj.content_type), saved |-> <<>>]

\* Lines 81-90: the upload descriptor.
file_handle(file_obj, temp_name, thumb_url) ==
    [upload_temp_name |-> Sign(UploadTemp \o temp_name),
     content_type |-> file_obj.content_type,
     content_type_extra |-> file_obj.content_type_extra,
     name |-> SubSeq(file_obj.name, 1, Min(filename_max_length, Len(file_obj.name))),
     download_url |-> MediaUrl(UploadTemp \o temp_name),
     thumbnail_url |-> thumb_url,
     size |-> file_obj.size]

\* The assert of line 69 compiled away (the mutant of SizeMatches).
SizeMatchesUnchecked(fs, temp_name, file_obj) == TRUE

\* Line 69: default_storage.size(relative_path) == file_obj.size
SizeMatches(fs, temp_name, file_obj) == fs[temp_name].size = file_obj.size

\* The uploads a client sends: the file (its name, its chunks by length, its
\* content type, what its bytes are to PIL) and the image_height field.
NumRequests == 2
Requests == 1..NumRequests
PngName == <<"a", ".", "p", "n", "g">>
FileNames == {PngName, <<"d">>, <<>>}
ChunkLists == {<<>>, <<2>>, <<2, 1>>}
ContentTypes == {<<"image", "/", "png">>, <<"image", "/", "svg+xml">>,
                 <<"audio", "/", "mpeg">>, <<"font", "/", "woff">>, <<"video", "/", "mp4">>,
                 <<"application", "/", "zip">>, <<"application", "/", "pdf">>,
                 <<"application", "/", "json">>, <<"text", "/", "plain">>,
                 <<>>, <<"image">>}
NotImage == [kind |-> "not_image", width |-> 0, height |-> 0]
Images == {NotImage} \cup [kind : {"ok", "truncated"}, width : {3, 5}, height : {2}]
                     \cup {[kind |-> "ok", width |-> 1, height |-> 400]}
ImageHeights == {[kind |-> "empty", value |-> 0], [kind |-> "text", value |-> 0]}
                  \cup [kind : {"int"}, value : {0, 1, 128}]

UploadedFile(name, chunks, content_type, image) ==
    [name |-> name, chunks |-> chunks, size |-> Sum(chunks), content_type |-> content_type,
     content_type_extra |-> <<>>, image |-> image]

\* Every upload; a file of no bytes is no image.
Uploads ==
    {[file_obj |-> UploadedFile(n, c, t, i), image_height |-> h] :
        n \in FileNames, c \in ChunkLists, t \in ContentTypes, i \in Images, h \in ImageHeights}

AnyUploads == {u \in Uploads : u.file_obj.size = 0 => u.file_obj.image = NotImage}

\* Uploads of PNG images under one of two names.
ImageUploads ==
    {u \in AnyUploads :
        /\ u.file_obj.name # <<>>
        /\ u.file_obj.content_type = <<"image", "/", "png">>
        /\ u.file_obj.chunks = <<2, 1>>
        /\ u.file_obj.image = [kind |-> "ok", width |-> 3, height |-> 2]
        /\ u.image_height.kind = "empty"}

NoUpload == [file_obj |-> UploadedFile(<<>>, <<>>, <<>>, NotImage),
             image_height |-> [kind |-> "empty", value |-> 0]]
NoLocal == [dir_exists |-> FALSE, temp_name |-> <<>>, offset |-> 0, chunk |-> 1]

InitUpload ==
    /\ upload_dir_exists \in BOOLEAN
    /\ files = <<>>
    /\ upload = [r \in Requests |-> NoUpload]
    /\ pc = [r \in Requests |-> "idle"]
    /\ local = [r \in Requests |-> NoLocal]
    /\ upload_response = [r \in Requests |-> NoResponse]

Finish(r, response) ==
    /\ pc' = [pc EXCEPT ![r] = "done"]
    /\ upload_response' = [upload_response EXCEPT ![r] = response]

Goto(r, label) ==
    /\ pc' = [pc EXCEPT ![r] = label]
    /\ UNCHANGED upload_response

\* FileUploadMixin.post: a multipart POST with a temp_file and an image_height.
PostUpload(r, uploads) ==
    /\ pc[r] = "idle"
    /\ \E u \in uploads : upload' = [upload EXCEPT ![r] = u]
    /\ Goto(r, "check")
    /\ UNCHANGED <<upload_dir_exists, files, local, not_upload_vars>>

\* Lines 56-57: `not file_obj` is File.__bool__, bool(self.name).
CheckFile(r) ==
    /\ pc[r] = "check"
    /\ IF upload[r].file_obj.name = <<>>
       THEN Finish(r, HttpResponseBadRequest("File upload failed for ''."))
       ELSE Goto(r, "exists")
    /\ UNCHANGED <<upload_dir_exists, files, upload, local, not_upload_vars>>

\* Line 61: os.path.exists(self.upload_temp_dir)
DirExists(r) ==
    /\ pc[r] = "exists"
    /\ local' = [local EXCEPT ![r].dir_exists = upload_dir_exists]
    /\ Goto(r, IF upload_dir_exists THEN "mkstemp" ELSE "makedirs")
    /\ UNCHANGED <<upload_dir_exists, files, upload, not_upload_vars>>

\* Line 62: os.makedirs raises FileExistsError when the directory exists by now.
MakeDirs(r) ==
    /\ pc[r] = "makedirs"
    /\ IF upload_dir_exists
       THEN Finish(r, Raised("FileExistsError")) /\ UNCHANGED upload_dir_exists
       ELSE Goto(r, "mkstemp") /\ upload_dir_exists' = TRUE
    /\ UNCHANGED <<files, upload, local, not_upload_vars>>

\* Lines 63-64: splitext and mkstemp, which creates the temp file.
MkStemp(r) ==
    /\ pc[r] = "mkstemp"
    /\ LET parts == splitext(upload[r].file_obj.name)
           names == TempNames(files, parts[1] \o <<".">>, parts[2])
       IN  IF names = {}
           THEN Finish(r, Raised("FileExistsError")) /\ UNCHANGED <<files, local>>
           ELSE \E name \in names :
                   /\ files' = Opened(files, name, r)
                   /\ local' = [local EXCEPT ![r].temp_name = name]
                   /\ Goto(r, "write")
    /\ UNCHANGED <<upload_dir_exists, upload, not_upload_vars>>

\* Lines 65-66: os.write of the next chunk; it may write less than the chunk.
WriteChunk(r) ==
    /\ pc[r] = "write"
    /\ local[r].chunk <= Len(upload[r].file_obj.chunks)
    /\ LET len == upload[r].file_obj.chunks[local[r].chunk]
       IN  \E n \in {len - 1, len} \cap 1..len :
              /\ files' = Written(files, local[r].temp_name, local[r].offset, n, r)
              /\ local' = [local EXCEPT ![r].offset = @ + n, ![r].chunk = @ + 1]
    /\ Goto(r, "write")
    /\ UNCHANGED <<upload_dir_exists, upload, not_upload_vars>>

\* Line 67: os.close(fh)
CloseFile(r) ==
    /\ pc[r] = "write"
    /\ local[r].chunk > Len(upload[r].file_obj.chunks)
    /\ Goto(r, "size")
    /\ UNCHANGED <<upload_dir_exists, files, upload, local, not_upload_vars>>

\* Lines 68-69: the size of the copy is asserted to be the declared size.
CheckSize(r) ==
    /\ pc[r] = "size"
    /\ IF SizeMatches(files, local[r].temp_name, upload[r].file_obj)
       THEN Goto(r, "respond")
       ELSE Finish(r, Raised("AssertionError"))
    /\ UNCHANGED <<upload_dir_exists, files, upload, local, not_upload_vars>>

\* Lines 70-90: the thumbnail (its file saved beside the copy) and the descriptor.
Respond(r) ==
    /\ pc[r] = "respond"
    /\ LET file_obj == upload[r].file_obj
           temp_name == local[r].temp_name
           download_url == MediaUrl(UploadTemp \o temp_name)
           thumb == thumbnail_url(file_obj, temp_name, download_url, upload[r].image_height)
       IN  /\ IF thumb.exc # "" THEN Finish(r, Raised(thumb.exc))
              ELSE Finish(r, JsonResponse(file_handle(file_obj, temp_name, thumb.url), 200))
           /\ IF thumb.saved # <<>>
              THEN files' = Written(Opened(files, thumb.saved, r), thumb.saved, 0, 1, r)
              ELSE UNCHANGED files
    /\ UNCHANGED <<upload_dir_exists, upload, local, not_upload_vars>>

IdleUpload == InitUpload /\ upload_dir_exists = FALSE

\* One configuration of each group, for the specifications of the others.
IdleForm == InitForm /\ form_class_name = NoName /\ declared_forms = <<>>
IdleSearch ==
    /\ InitSearch /\ search_view = "form" /\ queryset = {}
    /\ max_prefetch_choices = 1 /\ to_field_name = ""

PostAnyUpload == PostUpload(1, AnyUploads)
PostImageUpload(r) == PostUpload(r, ImageUploads)

NextForm == PostFormView \/ PostFormCollectionView
NextMeta == CreateClass \/ CreateMixin
NextSearch == GetSearch
\* One upload request, of any file.
NextUpload ==
    \/ PostAnyUpload
    \/ CheckFile(1)
    \/ DirExists(1)
    \/ MakeDirs(1)
    \/ MkStemp(1)
    \/ WriteChunk(1)
    \/ CloseFile(1)
    \/ CheckSize(1)
    \/ Respond(1)
\* Concurrent upload requests of images, their steps interleaved.
NextConcurrent ==
    \E r \in Requests :
        \/ PostImageUpload(r)
        \/ CheckFile(r)
        \/ DirExists(r)
        \/ MakeDirs(r)
        \/ MkStemp(r)
        \/ WriteChunk(r)
        \/ CloseFile(r)
        \/ CheckSize(r)
        \/ Respond(r)

Init == InitForm /\ InitMeta /\ InitSearch /\ InitUpload
Next == NextForm \/ NextMeta \/ NextSearch \/ NextUpload \/ NextConcurrent
Spec == Init /\ [][Next]_vars

\* Each group of handlers alone, the others at rest.
InitOfForm == InitForm /\ InitMeta /\ IdleSearch /\ IdleUpload
InitOfMeta == IdleForm /\ InitMeta /\ IdleSearch /\ IdleUpload
InitOfSearch == IdleForm /\ InitMeta /\ InitSearch /\ IdleUpload
InitOfUpload == IdleForm /\ InitMeta /\ IdleSearch /\ InitUpload
SpecForm == InitOfForm /\ [][NextForm]_vars
SpecMeta == InitOfMeta /\ [][NextMeta]_vars
SpecSearch == InitOfSearch /\ [][NextSearch]_vars
SpecUpload == InitOfUpload /\ [][NextUpload]_vars
SpecConcurrent == InitOfUpload /\ [][NextConcurrent]_vars

(***************************************************************************)
(* The claims                                                              *)
(***************************************************************************)

\* A field of a bound sub-object is acceptable: present, not empty, and no
\* longer than the field's max_length.
FieldOk(data, f) ==
    /\ f \in DOMAIN data.fields
    /\ data.fields[f] >= 1
    /\ data.fields[f] <= max_length(f)

\* The data a form is bound to is valid: an object whose fields are all acceptable.
DataOk(data) == data.kind = "object" /\ \A f \in Range(AddressFields) : FieldOk(data, f)

\* The sub-value a body gives a form name (a missing one is empty data).
SubValue(body, name) ==
    IF body.kind = "object" /\ name \in DOMAIN body.items THEN body.items[name] ELSE EmptyDict

\* A form's error mapping reports the data it was bound to: an entry for
\* exactly the fields that are not acceptable (none for a form bound to null,
\* which is not valid and has no field errors).
ErrorsReport(errors, data) ==
    IF data.kind = "null" THEN errors = <<>>
    ELSE \A f \in Range(AddressFields) : FieldOk(data, f) <=> f \notin DOMAIN errors

\* The declared forms the body leaves invalid.
InvalidForms == {n \in Range(declared_forms) : ~DataOk(SubValue(form_data, n))}

\* What C1 says of a response of the collection handler.
CollectionContract ==
    \/ /\ InvalidForms = {}
       /\ form_response.status = 200
       /\ form_response.body = [success_url |-> SuccessUrl]
    \/ /\ InvalidForms # {}
       /\ form_response.status = 422
       /\ DOMAIN form_response.body = InvalidForms
       /\ \A n \in InvalidForms : ErrorsReport(form_response.body[n], SubValue(form_data, n))

\* C1: for every JSON body the collection handler validates every declared
\* form: it answers 200 with the success_url iff every declared form is valid,
\* and otherwise 422 with an entry for exactly the invalid forms.
C1_EveryBody == form_handler = "collection" => CollectionContract

\* The declarations merged along the first i classes of a reversed MRO, from
\* the most basic class on: a form declared in a class overrides, a None in
\* a class removes, anything else is inherited.
RECURSIVE MergedDeclarations(_, _, _)
MergedDeclarations(cs, rmro, i) ==
    IF i = 0 THEN <<>>
    ELSE LET inherited == MergedDeclarations(cs, rmro, i - 1)
             attrs == cs[rmro[i]].attrs
             names == {a \in AttrNames :
                          \/ attrs[a] \in Forms
                          \/ a \in DOMAIN inherited /\ attrs[a] # "None"}
         IN  [a \in names |-> IF attrs[a] \in Forms THEN attrs[a] ELSE inherited[a]]

\* C2: the declared_forms of every collection class equals the merge of the
\* declarations along its inheritance chain, from the most basic class to
\* the class itself: later declarations override, None removes (and the name
\* stays removed until re-declared), the rest is inherited unchanged.
C2_DeclaredFormsAreMerged ==
    \A i \in DOMAIN classes :
        classes[i].has_declared_forms =>
            classes[i].declared_forms =
                MergedDeclarations(classes, Reverse(classes[i].mro), Len(classes[i].mro))

\* The sub-value under the key the single form is bound to.
FormKey == IF form_class_name = NoName THEN DefaultName ELSE form_class_name
FormSubValue == SubValue(form_data, FormKey)

\* What C3 says of a response of the single-form handler.
FormContract ==
    \/ /\ DataOk(FormSubValue)
       /\ form_response.status = 200
       /\ form_response.body = [success_url |-> SuccessUrl]
    \/ /\ ~DataOk(FormSubValue)
       /\ form_response.status = 422
       /\ DOMAIN form_response.body = {FormKey}
       /\ ErrorsReport(form_response.body[FormKey], FormSubValue)
       /\ (form_data.kind = "object" /\ FormKey \notin DOMAIN form_data.items)
             => form_response.body[FormKey] = [f \in Range(AddressFields) |-> <<"required">>]

\* C3: for every JSON body the single-form handler answers 200 with the
\* success_url if the form bound to the sub-object under its name is valid,
\* and otherwise 422 with the errors under the form's name.
C3_EveryBody == form_handler = "form" => FormContract

\* The records matching the search request's query.
Matching == {id \in queryset : Contains(Label(id), search_request.query)}

\* The search was answered with options.
Answered == search_request.sent /\ search_response.status = 200

\* The record an item of the response stands for.
ItemRecord(item) ==
    CHOOSE id \in queryset : item.id = (IF to_field_name = "" THEN id ELSE Code(id))

\* What C7 says of the items and of total_count: at most the configured
\* maximum, matching records only, in descending order of the records' id,
\* the highest ids first; total_count is the size of the unfiltered collection.
ItemsContract ==
    LET items == search_response.body.items
    IN  /\ Len(items) <= max_prefetch_choices
        /\ \A i \in DOMAIN items : ItemRecord(items[i]) \in Matching
        /\ \A i, j \in DOMAIN items : i < j => ItemRecord(items[i]) > ItemRecord(items[j])
        /\ \A i \in DOMAIN items : \A id \in Matching :
              id > ItemRecord(items[i]) => \E j \in DOMAIN items : ItemRecord(items[j]) = id
        /\ search_response.body.total_count = Cardinality(queryset)
        /\ Matching = {} => search_response.body.count = 0

\* C7 as claimed: the items are capped and in descending id order, count is
\* the number of records MATCHING the query and total_count the size of the
\* unfiltered collection.
C7_CountIsMatching ==
    Answered => ItemsContract /\ search_response.body.count = Cardinality(Matching)

\* C7 amended: the items are capped at the configured maximum and in
\* descending id order; count is the number of items returned, that is the
\* number of matching records capped at the configured maximum; total_count
\* is the size of the unfiltered collection; a query matching nothing gives
\* count = 0.
C7_CountIsReturned ==
    Answered =>
        /\ ItemsContract
        /\ search_response.body.count = Len(search_response.body.items)
        /\ search_response.body.count = Min(Cardinality(Matching), max_prefetch_choices)

\* C7's case: more records match than the maximum allows to return.
C7_Witness ==
    /\ Answered
    /\ max_prefetch_choices = 2
    /\ Cardinality(Matching) = 3
    /\ search_response.body.count = 2
    /\ search_response.body.total_count = 3

\* The field parameter is exactly <form>.<field>: one dot.
WellFormedField(f) == Cardinality({i \in DOMAIN f : f[i] = "."}) = 1

\* C10: a search whose field parameter is not of the form <form>.<field> is
\* answered with 400.
C10_MalformedFieldIs400 ==
    (search_request.sent /\ ~WellFormedField(search_request.field))
        => search_response.status = 400

\* Request r was answered with an upload descriptor.
Described(r) == pc[r] = "done" /\ upload_response[r].status = 200

\* Request r created its temp file.
HasTemp(r) == local[r].temp_name # <<>>

\* The bytes copied into request r's temp file.
CopiedSize(r) == files[local[r].temp_name].size

\* C4: a descriptor is returned only when the copy has the declared size, its
\* size then being the byte length of the source; a copy of another size
\* aborts the request with a failure and no descriptor.
C4_DescriptorOnlyWhenSizeMatches ==
    \A r \in Requests :
        /\ Described(r) =>
              /\ HasTemp(r)
              /\ CopiedSize(r) = upload[r].file_obj.size
              /\ upload_response[r].body.size = Sum(upload[r].file_obj.chunks)
        /\ (pc[r] \in {"respond", "done"} /\ HasTemp(r)
              /\ CopiedSize(r) # upload[r].file_obj.size) =>
              /\ pc[r] = "done"
              /\ upload_response[r] = Raised("AssertionError")

\* C4's case: a write fell short, the copy is smaller than declared and the
\* request was aborted.
C4_Witness ==
    /\ pc[1] = "done"
    /\ HasTemp(1)
    /\ upload[1].file_obj.size = 3
    /\ CopiedSize(1) = 2
    /\ upload_response[1].status = 500

\* The content type of request r's file is image/* other than image/svg+xml.
IsRasterType(r) ==
    LET ct == upload[r].file_obj.content_type
    IN  Len(ct) = 3 /\ ct[1] = "image" /\ ct[2] = "/" /\ ct[3] # "svg+xml"

\* Request r is done and its copy was handed to the thumbnailer.
Thumbnailed(r) ==
    /\ pc[r] = "done"
    /\ HasTemp(r)
    /\ CopiedSize(r) = upload[r].file_obj.size
    /\ IsRasterType(r)

PictureIcon == [storage |-> "static", path |-> <<"formset/icons/file-", "picture", ".svg">>]

\* C5: the thumbnail path never fails the request: whatever the bytes and
\* the image_height, the response is the descriptor, with the broken-image
\* icon when the file cannot be decoded.
C5_ThumbnailNeverFails ==
    \A r \in Requests :
        Thumbnailed(r) =>
            /\ upload_response[r].status = 200
            /\ upload[r].file_obj.image.kind # "ok"
                  => upload_response[r].body.thumbnail_url = PictureIcon

\* The icon the claim gives each content type that is no image.
IconOf(ct) ==
    CASE ct = <<"audio", "/", "mpeg">> -> "audio"
      [] ct = <<"font", "/", "woff">> -> "font"
      [] ct = <<"video", "/", "mp4">> -> "video"
      [] ct = <<"application", "/", "zip">> -> "zip"
      [] ct = <<"application", "/", "pdf">> -> "pdf"
      [] OTHER -> "unknown"

\* C6: the thumbnail_url of a descriptor is chosen by content type: the
\* download_url for image/svg+xml, the icon of the MIME type for a type that
\* is no image (file-unknown when the type has none), and for the other
\* image types what the thumbnailer returned.
C6_ThumbnailByContentType ==
    \A r \in Requests :
        Described(r) =>
            LET d == upload_response[r].body
                ct == upload[r].file_obj.content_type
            IN  /\ Len(ct) = 3
                /\ ct = <<"image", "/", "svg+xml">> => d.thumbnail_url = d.download_url
                /\ ct[1] # "image" =>
                      d.thumbnail_url =
                          [storage |-> "static",
                           path |-> <<"formset/icons/file-", IconOf(ct), ".svg">>]
                /\ IsRasterType(r) =>
                      \/ d.thumbnail_url = PictureIcon
                      \/ /\ d.thumbnail_url.storage = "media"
                         /\ d.thumbnail_url # d.download_url
                         /\ upload[r].file_obj.image.kind = "ok"

\* C6's case: a PDF was uploaded and got the PDF icon.
C6_Witness ==
    /\ Described(1)
    /\ upload[1].file_obj.content_type = <<"application", "/", "pdf">>
    /\ upload_response[1].body.thumbnail_url.path = <<"formset/icons/file-", "pdf", ".svg">>

\* C8: concurrent uploads never obtain the same temp path, also when their
\* files have the same name; a request writes to its own temp file only, and
\* no file is opened or written by a request that did not create it.
C8_TempPathsNeverCollide ==
    /\ \A r1, r2 \in Requests :
          (r1 # r2 /\ HasTemp(r1) /\ HasTemp(r2)) => local[r1].temp_name # local[r2].temp_name
    /\ \A r \in Requests : HasTemp(r) => files[local[r].temp_name].creator = r
    /\ \A f \in DOMAIN files : files[f].writers \subseteq {files[f].creator}

\* C8's case: two requests uploaded files of the same name, their steps
\* interleaved, and both copies are complete.
C8_Witness ==
    /\ upload[1].file_obj.name = PngName
    /\ upload[2].file_obj.name = PngName
    /\ Described(1) /\ Described(2)
    /\ local[1].temp_name # local[2].temp_name
    /\ CopiedSize(1) = 3 /\ CopiedSize(2) = 3

\* C9: an upload whose file part is empty is answered with 400, no temp
\* file is created for it and no descriptor returned.
C9_EmptyFileIs400 ==
    \A r \in Requests :
        (pc[r] # "idle" /\ upload[r].file_obj.size = 0) =>
            /\ ~HasTemp(r)
            /\ pc[r] = "done" => upload_response[r].status = 400
====
